---- MODULE Spec2Model ----
(***************************************************************************)
(* Model of fix_project.py, the line-oriented patcher of                   *)
(* iMessageWrapped.xcodeproj/project.pbxproj.                              *)
(*                                                                         *)
(* The file on disk is a sequence of text lines (what readlines returns);  *)
(* every line is the real string, so that `x in line' is a real sub-string *)
(* search and "byte-identical" is equality of strings.  One run of the     *)
(* script is read -> guard -> first loop -> second loop -> write ->        *)
(* report, each loop one step; the script may be run again on the file it  *)
(* left behind.                                                            *)
(***************************************************************************)
EXTENDS Integers, Sequences, FiniteSets, TLC

VARIABLES
    disk,                 \* content of `path' on disk, as the sequence of its lines
    lines,                \* src line 6
    new_lines,            \* src line 8
    in_native_target,     \* src line 9
    in_frameworks_phase,  \* src line 10
    final_lines,          \* src line 66
    inserted_deps,        \* src line 67
    pc,                   \* position of the running script
    stdout,               \* what the run has printed
    status,               \* exit status of the run, -1 while it is running
    run,                  \* how many times the script has been started
    ids,                  \* src lines 11-24: the identifier names bound so far
    orig,                 \* history: the file before the first run
    start,                \* history: the file when the current run started
    reads,                \* history: executions of the read (lines 5-6) in this run
    writes,               \* history: executions of the write (lines 90-91) in this run
    failure,              \* history: which statement raised in this run
    new_from,             \* history: for each line of new_lines, its index in lines, 0 if synthesized
    final_from            \* history: the same for final_lines

vars == <<disk, lines, new_lines, in_native_target, in_frameworks_phase,
          final_lines, inserted_deps, pc, stdout, status, run, ids,
          orig, start, reads, writes, failure, new_from, final_from>>

-----------------------------------------------------------------------------
(* Bounds *)

MaxChunks == 4      \* an input document is made of at most this many chunks
MaxRuns == 2        \* the script is started at most this many times

-----------------------------------------------------------------------------
(* Strings: Python's `in', str.join and str.count *)

\* m in s
Contains(m, s) ==
    \E k \in 1..(Len(s) - Len(m) + 1) : SubSeq(s, k, k + Len(m) - 1) = m

\* s.count(m), for an m that cannot overlap itself
Count(m, s) ==
    Cardinality({k \in 1..(Len(s) - Len(m) + 1) : SubSeq(s, k, k + Len(m) - 1) = m})

RECURSIVE Join(_)
\* "".join(ls)
Join(ls) == IF ls = <<>> THEN "" ELSE Head(ls) \o Join(Tail(ls))

\* the positions of the line ends of s
LineEnds(s) == {k \in 1..Len(s) : SubSeq(s, k, k) = "\n"}

RECURSIVE SplitLines(_)
\* the lines of the text s, each with its line end (what readlines makes of s)
SplitLines(s) ==
    IF s = "" THEN <<>>
    ELSE IF LineEnds(s) = {} THEN <<s>>
    ELSE LET p == CHOOSE k \in LineEnds(s) : \A j \in LineEnds(s) : k <= j
         IN  <<SubSeq(s, 1, p)>> \o SplitLines(SubSeq(s, p + 1, Len(s)))

RECURSIVE Flatten(_)
\* concatenation of a sequence of sequences of lines
Flatten(ss) == IF ss = <<>> THEN <<>> ELSE Head(ss) \o Flatten(Tail(ss))

\* a sequence of n zeros
Zeros(n) == [k \in 1..n |-> 0]

-----------------------------------------------------------------------------
(* The identifiers and the markers of the script *)

frameworks_phase_id == "A1000020282A0001"
native_target_id == "A1000040282A0001"

mlx_pkg_id == "96B796092F00EDE300F7DF93"
mlx_lm_pkg_id == "96B7960A2F00EFF500F7DF93"

mlx_dep_id == "96B7960B2F00F00100F7DF93"
mlx_llm_dep_id == "96B7960C2F00F00200F7DF93"
mlx_common_dep_id == "96B7960F2F00F00500F7DF93"

mlx_build_id == "96B7960D2F00F00300F7DF93"
mlx_llm_build_id == "96B7960E2F00F00400F7DF93"
mlx_common_build_id == "96B796102F00F00600F7DF93"

BuildFileMarker == "/* Begin PBXBuildFile section */"
FrameworksMarker == frameworks_phase_id \o " /* Frameworks */ = {"
FilesMarker == "files = ("
NativeTargetMarker == native_target_id \o " /* iMessageWrapped */ = {"
ProductTypeMarker == "productType = "
ProjectMarker == "/* Begin PBXProject section */"

AlreadyPatchedMsg == "Project already patched."
PatchedMsg == "Project patched successfully."

-----------------------------------------------------------------------------
(* The synthesized lines *)

\* the build-file lines with the first productRef naming the second product
BuildFileLines_WrongRef ==
    << "\t\t" \o mlx_build_id \o " /* MLX in Frameworks */ = {isa = PBXBuildFile; productRef = "
         \o mlx_llm_dep_id \o " /* MLX */; };\n",
       "\t\t" \o mlx_llm_build_id \o " /* MLXLLM in Frameworks */ = {isa = PBXBuildFile; productRef = "
         \o mlx_llm_dep_id \o " /* MLXLLM */; };\n",
       "\t\t" \o mlx_common_build_id \o " /* MLXLMCommon in Frameworks */ = {isa = PBXBuildFile; productRef = "
         \o mlx_common_dep_id \o " /* MLXLMCommon */; };\n" >>

BuildFileLines ==
    << "\t\t" \o mlx_build_id \o " /* MLX in Frameworks */ = {isa = PBXBuildFile; productRef = "
         \o mlx_dep_id \o " /* MLX */; };\n",
       "\t\t" \o mlx_llm_build_id \o " /* MLXLLM in Frameworks */ = {isa = PBXBuildFile; productRef = "
         \o mlx_llm_dep_id \o " /* MLXLLM */; };\n",
       "\t\t" \o mlx_common_build_id \o " /* MLXLMCommon in Frameworks */ = {isa = PBXBuildFile; productRef = "
         \o mlx_common_dep_id \o " /* MLXLMCommon */; };\n" >>

\* the phase references naming the product dependencies
PhaseFileLines_DepIds ==
    << "\t\t\t\t" \o mlx_dep_id \o " /* MLX in Frameworks */,\n",
       "\t\t\t\t" \o mlx_llm_dep_id \o " /* MLXLLM in Frameworks */,\n",
       "\t\t\t\t" \o mlx_common_dep_id \o " /* MLXLMCommon in Frameworks */,\n" >>

PhaseFileLines ==
    << "\t\t\t\t" \o mlx_build_id \o " /* MLX in Frameworks */,\n",
       "\t\t\t\t" \o mlx_llm_build_id \o " /* MLXLLM in Frameworks */,\n",
       "\t\t\t\t" \o mlx_common_build_id \o " /* MLXLMCommon in Frameworks */,\n" >>

\* the dependency block naming the build-file identifiers
TargetDependencyLines_BuildIds ==
    << "\t\t\tpackageProductDependencies = (\n",
       "\t\t\t\t" \o mlx_build_id \o " /* MLX */,\n",
       "\t\t\t\t" \o mlx_llm_build_id \o " /* MLXLLM */,\n",
       "\t\t\t\t" \o mlx_common_build_id \o " /* MLXLMCommon */,\n",
       "\t\t\t);\n" >>

\* the dependency block without its closing line
TargetDependencyLines_Unclosed ==
    << "\t\t\tpackageProductDependencies = (\n",
       "\t\t\t\t" \o mlx_dep_id \o " /* MLX */,\n",
       "\t\t\t\t" \o mlx_llm_dep_id \o " /* MLXLLM */,\n",
       "\t\t\t\t" \o mlx_common_dep_id \o " /* MLXLMCommon */,\n" >>

TargetDependencyLines ==
    << "\t\t\tpackageProductDependencies = (\n",
       "\t\t\t\t" \o mlx_dep_id \o " /* MLX */,\n",
       "\t\t\t\t" \o mlx_llm_dep_id \o " /* MLXLLM */,\n",
       "\t\t\t\t" \o mlx_common_dep_id \o " /* MLXLMCommon */,\n",
       "\t\t\t);\n" >>

DependencySectionLines ==
    << "/* Begin XCSwiftPackageProductDependency section */\n",
       "\t\t" \o mlx_dep_id \o " /* MLX */ = {\n",
       "\t\t\tisa = XCSwiftPackageProductDependency;\n",
       "\t\t\tpackage = " \o mlx_pkg_id \o " /* XCRemoteSwiftPackageReference \"mlx-swift\" */;\n",
       "\t\t\tproductName = MLX;\n",
       "\t\t};\n",
       "\t\t" \o mlx_llm_dep_id \o " /* MLXLLM */ = {\n",
       "\t\t\tisa = XCSwiftPackageProductDependency;\n",
       "\t\t\tpackage = " \o mlx_lm_pkg_id \o " /* XCRemoteSwiftPackageReference \"mlx-swift-lm\" */;\n",
       "\t\t\tproductName = MLXLLM;\n",
       "\t\t};\n",
       "\t\t" \o mlx_common_dep_id \o " /* MLXLMCommon */ = {\n",
       "\t\t\tisa = XCSwiftPackageProductDependency;\n",
       "\t\t\tpackage = " \o mlx_lm_pkg_id \o " /* XCRemoteSwiftPackageReference \"mlx-swift-lm\" */;\n",
       "\t\t\tproductName = MLXLMCommon;\n",
       "\t\t};\n",
       "/* End XCSwiftPackageProductDependency section */\n\n" >>

-----------------------------------------------------------------------------
(* Input documents: what the file may hold before the first run.  A        *)
(* document is a concatenation of at most MaxChunks chunks, each a piece   *)
(* of a project.pbxproj.                                                   *)

BuildFileChunk == << "/* Begin PBXBuildFile section */\n" >>
FrameworksChunk ==
    << "\t\tA1000020282A0001 /* Frameworks */ = {\n", "\t\t\tfiles = (\n", "\t\t\t);\n", "\t\t};\n" >>
EmptyFrameworksChunk ==
    << "\t\tA1000020282A0001 /* Frameworks */ = {\n", "\t\t};\n" >>
ResourcesChunk ==
    << "\t\tA1000030282A0001 /* Resources */ = {\n", "\t\t\tfiles = (\n", "\t\t\t);\n", "\t\t};\n" >>
NativeTargetChunk ==
    << "\t\tA1000040282A0001 /* iMessageWrapped */ = {\n",
       "\t\t\tproductType = \"com.apple.product-type.application\";\n", "\t\t};\n" >>
ProjectChunk == << "/* Begin PBXProject section */\n" >>
\* a line that already names the MLX product dependency
SentinelChunk == << "\t\t\t\t96B7960B2F00F00100F7DF93 /* MLX */,\n" >>
\* a record that already carries the MLXLLM product dependency identifier
DeclaredChunk == << "\t\t96B7960C2F00F00200F7DF93 /* MLXLLM */ = {\n", "\t\t};\n" >>

Chunks == { BuildFileChunk, FrameworksChunk, EmptyFrameworksChunk, ResourcesChunk,
            NativeTargetChunk, ProjectChunk, SentinelChunk, DeclaredChunk }

Documents ==
    { Flatten(cs) : cs \in UNION { [1..n -> Chunks] : n \in 0..MaxChunks } }

-----------------------------------------------------------------------------
(* `m in line' for the lines and the sub-strings that occur over and over:  *)
(* the result of the search is computed once per line and looked up.       *)

Range(f) == {f[k] : k \in DOMAIN f}

\* the lines of the input chunks and the strings the script synthesizes
WrittenStrings ==
    UNION {Range(c) : c \in Chunks}
    \cup Range(BuildFileLines) \cup Range(PhaseFileLines)
    \cup Range(TargetDependencyLines) \cup Range(DependencySectionLines)

\* for each of them, the lines it makes in the file
LinesOf == [l \in WrittenStrings |-> SplitLines(l)]

\* they, and the lines they are read back as
KnownLines == WrittenStrings \cup UNION {Range(LinesOf[l]) : l \in WrittenStrings}

\* the string ends with a line end
EndsLine(l) == Len(l) > 0 /\ SubSeq(l, Len(l), Len(l)) = "\n"

\* the lines of the file that holds the strings ls one after the other
FileLines(ls) ==
    IF \A k \in 1..Len(ls) : ls[k] \in WrittenStrings /\ LinesOf[ls[k]] # <<>>
                                /\ EndsLine(ls[k])
    THEN Flatten([k \in 1..Len(ls) |-> LinesOf[ls[k]]])
    ELSE SplitLines(Join(ls))

\* the sub-strings the script looks for in a line
Markers ==
    {BuildFileMarker, FrameworksMarker, FilesMarker, NativeTargetMarker,
     ProductTypeMarker, ProjectMarker}

\* for each known line, the markers it contains
MarkersOf == [l \in KnownLines |-> {m \in Markers : Contains(m, l)}]

\* m in line
In(m, line) ==
    IF line \in KnownLines /\ m \in Markers THEN m \in MarkersOf[line]
    ELSE Contains(m, line)

-----------------------------------------------------------------------------
(* The script *)

\* line 27
content == Join(lines)

Init ==
    /\ disk \in Documents
    /\ orig = disk
    /\ start = disk
    /\ lines = <<>>
    /\ new_lines = <<>>
    /\ in_native_target = FALSE
    /\ in_frameworks_phase = FALSE
    /\ final_lines = <<>>
    /\ inserted_deps = FALSE
    /\ pc = "read"
    /\ stdout = <<>>
    /\ status = -1
    /\ run = 1
    /\ ids = {}
    /\ reads = 0
    /\ writes = 0
    /\ failure = "none"
    /\ new_from = <<>>
    /\ final_from = <<>>

\* lines 5-6: open(path, 'r') and readlines succeed
ReadFile ==
    /\ pc = "read"
    /\ lines' = disk
    /\ reads' = reads + 1
    /\ pc' = "define"
    /\ UNCHANGED <<disk, new_lines, in_native_target, in_frameworks_phase, final_lines,
                   inserted_deps, stdout, status, run, orig, start, writes, failure,
                   new_from, final_from, ids>>

\* lines 5-6: open(path, 'r') or readlines raises; the exception is not caught
ReadFail ==
    /\ pc = "read"
    /\ reads' = reads + 1
    /\ failure' = "read"
    /\ status' = 1
    /\ pc' = "exit"
    /\ UNCHANGED <<disk, lines, new_lines, in_native_target, in_frameworks_phase, final_lines,
                   inserted_deps, stdout, run, orig, start, writes, new_from, final_from, ids>>

\* the names bound by lines 11-24
IdNames ==
    {"frameworks_phase_id", "native_target_id", "mlx_pkg_id", "mlx_lm_pkg_id",
     "mlx_dep_id", "mlx_llm_dep_id", "mlx_common_dep_id",
     "mlx_build_id", "mlx_llm_build_id", "mlx_common_build_id"}

\* the first loop entered right after the definitions, without the guard
DefineIds_SkipGuard ==
    /\ pc = "define"
    /\ new_lines' = <<>>
    /\ in_native_target' = FALSE
    /\ in_frameworks_phase' = FALSE
    /\ ids' = IdNames
    /\ pc' = "pass1"
    /\ UNCHANGED <<disk, lines, final_lines, inserted_deps, stdout, status, run, orig,
                   start, reads, writes, failure, new_from, final_from>>

\* lines 8-24, after the read: the list and the flags are set up and the
\* identifiers defined
DefineIds ==
    /\ pc = "define"
    /\ new_lines' = <<>>
    /\ in_native_target' = FALSE
    /\ in_frameworks_phase' = FALSE
    /\ ids' = IdNames
    /\ pc' = "guard"
    /\ UNCHANGED <<disk, lines, final_lines, inserted_deps, stdout, status, run, orig,
                   start, reads, writes, failure, new_from, final_from>>

\* the guard looking for a build-file identifier instead of the sentinel
AlreadyPatched_OtherId == Contains(mlx_build_id, content)

\* line 28
AlreadyPatched == Contains(mlx_dep_id, content)

\* the guard leaving with sys.exit(1)
Guard_Status1 ==
    /\ pc = "guard"
    /\ IF AlreadyPatched
       THEN /\ stdout' = Append(stdout, AlreadyPatchedMsg)
            /\ status' = 1
            /\ pc' = "exit"
       ELSE /\ pc' = "pass1"
            /\ UNCHANGED <<stdout, status>>
    /\ UNCHANGED <<disk, lines, new_lines, in_native_target, in_frameworks_phase,
                   final_lines, inserted_deps, run, orig, start, reads, writes,
                   failure, new_from, final_from, ids>>

\* lines 26-30: the script prints and exits if the sentinel is in the content
Guard ==
    /\ pc = "guard"
    /\ IF AlreadyPatched
       THEN /\ stdout' = Append(stdout, AlreadyPatchedMsg)
            /\ status' = 0
            /\ pc' = "exit"
       ELSE /\ pc' = "pass1"
            /\ UNCHANGED <<stdout, status>>
    /\ UNCHANGED <<disk, lines, new_lines, in_native_target, in_frameworks_phase,
                   final_lines, inserted_deps, run, orig, start, reads, writes,
                   failure, new_from, final_from, ids>>

\* line 36
BuildFileTrigger(line) == In(BuildFileMarker, line)

\* lines 42-43, the flag after the arming test
FrameworksArmed(flag, line) == flag \/ In(FrameworksMarker, line)

\* line 45
FrameworksTrigger(flag, line) == FrameworksArmed(flag, line) /\ In(FilesMarker, line)

\* the target flag armed by the frameworks phase identifier
NativeTargetArmed_WrongId(flag, line) == flag \/ In(FrameworksMarker, line)

\* lines 52-53, the flag after the arming test
NativeTargetArmed(flag, line) == flag \/ In(NativeTargetMarker, line)

\* the dependency block appended after the line that opens the target
NativeTargetTrigger_OnOpen(flag, line) == In(NativeTargetMarker, line)

\* line 55
NativeTargetTrigger(flag, line) == NativeTargetArmed(flag, line) /\ In(ProductTypeMarker, line)

\* lines 33-62: what one iteration of the first loop appends to new_lines
Inserted(line, fw, nt) ==
    <<line>>
    \o (IF BuildFileTrigger(line) THEN BuildFileLines ELSE <<>>)
    \o (IF FrameworksTrigger(fw, line) THEN PhaseFileLines ELSE <<>>)
    \o (IF NativeTargetTrigger(nt, line) THEN TargetDependencyLines ELSE <<>>)

\* lines 33-62, one iteration of the first loop: acc is the state before it,
\* line the k-th line of the list
Iteration1(acc, line, k, grp) ==
    [new_lines |-> acc.new_lines \o grp,
     new_from |-> acc.new_from \o <<k>> \o Zeros(Len(grp) - 1),
     in_frameworks_phase |->
         (FrameworksArmed(acc.in_frameworks_phase, line)
          /\ ~FrameworksTrigger(acc.in_frameworks_phase, line)),
     in_native_target |->
         (NativeTargetArmed(acc.in_native_target, line)
          /\ ~NativeTargetTrigger(acc.in_native_target, line))]

RECURSIVE Loop1(_, _, _)
\* lines 32-62, the iterations of the first loop from the k-th line of ls on
Loop1(ls, k, acc) ==
    IF k > Len(ls) THEN acc
    ELSE Loop1(ls, k + 1,
               Iteration1(acc, ls[k], k,
                          Inserted(ls[k], acc.in_frameworks_phase, acc.in_native_target)))

\* the state the first loop leaves
Loop1Ends(r) ==
    /\ new_lines' = r.new_lines
    /\ new_from' = r.new_from
    /\ in_frameworks_phase' = r.in_frameworks_phase
    /\ in_native_target' = r.in_native_target

\* the first loop also writing what it has assembled to the file
StructuralInserter_Writing ==
    /\ pc = "pass1"
    /\ Loop1Ends(Loop1(lines, 1,
                       [new_lines |-> new_lines, new_from |-> new_from,
                        in_frameworks_phase |-> in_frameworks_phase,
                        in_native_target |-> in_native_target]))
    /\ disk' = FileLines(new_lines')
    /\ pc' = "pass2"
    /\ UNCHANGED <<lines, final_lines, inserted_deps, stdout, status, run, orig,
                   start, reads, writes, failure, final_from, ids>>

\* lines 32-62, the first loop
StructuralInserter ==
    /\ pc = "pass1"
    /\ Loop1Ends(Loop1(lines, 1,
                       [new_lines |-> new_lines, new_from |-> new_from,
                        in_frameworks_phase |-> in_frameworks_phase,
                        in_native_target |-> in_native_target]))
    /\ pc' = "pass2"
    /\ UNCHANGED <<disk, lines, final_lines, inserted_deps, stdout, status, run, orig,
                   start, reads, writes, failure, final_from, ids>>

\* the section test without the inserted_deps flag
SectionTrigger_NoFlag(flag, line) == In(ProjectMarker, line)

\* line 69
SectionTrigger(flag, line) == In(ProjectMarker, line) /\ ~flag

\* one iteration of the second loop with the line appended before the section
Iteration2_LineFirst(acc, line, from, fires) ==
    [final_lines |-> acc.final_lines
                     \o <<line>> \o (IF fires THEN DependencySectionLines ELSE <<>>),
     final_from |-> acc.final_from
                    \o <<from>> \o (IF fires THEN Zeros(Len(DependencySectionLines)) ELSE <<>>),
     inserted_deps |-> (acc.inserted_deps \/ fires)]

\* lines 69-88, one iteration of the second loop: acc is the state before
\* it, line the line of new_lines that came from the line `from' of lines
Iteration2(acc, line, from, fires) ==
    [final_lines |-> acc.final_lines
                     \o (IF fires THEN DependencySectionLines ELSE <<>>) \o <<line>>,
     final_from |-> acc.final_from
                    \o (IF fires THEN Zeros(Len(DependencySectionLines)) ELSE <<>>) \o <<from>>,
     inserted_deps |-> (acc.inserted_deps \/ fires)]

RECURSIVE Loop2(_, _, _, _)
\* lines 68-88, the iterations of the second loop from the k-th line of ls on
Loop2(ls, froms, k, acc) ==
    IF k > Len(ls) THEN acc
    ELSE Loop2(ls, froms, k + 1,
               Iteration2(acc, ls[k], froms[k], SectionTrigger(acc.inserted_deps, ls[k])))

\* the state the second loop leaves
Loop2Ends(r) ==
    /\ final_lines' = r.final_lines
    /\ final_from' = r.final_from
    /\ inserted_deps' = r.inserted_deps

\* lines 66-88, the second loop
SectionAppender ==
    /\ pc = "pass2"
    /\ Loop2Ends(Loop2(new_lines, new_from, 1,
                       [final_lines |-> <<>>, final_from |-> <<>>, inserted_deps |-> FALSE]))
    /\ pc' = "write"
    /\ UNCHANGED <<disk, lines, new_lines, in_native_target, in_frameworks_phase, stdout,
                   status, run, orig, start, reads, writes, failure, new_from, ids>>

\* lines 90-91: open(path, 'w') and writelines succeed
WriteFile ==
    /\ pc = "write"
    /\ disk' = FileLines(final_lines)
    /\ writes' = writes + 1
    /\ pc' = "report"
    /\ UNCHANGED <<lines, new_lines, in_native_target, in_frameworks_phase, final_lines,
                   inserted_deps, stdout, status, run, orig, start, reads, failure,
                   new_from, final_from, ids>>

\* line 90: open(path, 'w') raises and the file is as it was
WriteOpenFail ==
    /\ pc = "write"
    /\ writes' = writes + 1
    /\ failure' = "open_w"
    /\ status' = 1
    /\ pc' = "exit"
    /\ UNCHANGED <<disk, lines, new_lines, in_native_target, in_frameworks_phase, final_lines,
                   inserted_deps, stdout, run, orig, start, reads, new_from, final_from, ids>>

\* how many lines may have reached the disk when writelines raises: none,
\* half of them, all but the last
PartialWrites(n) == {0, n \div 2, n - 1} \cap (0..(n - 1))

\* line 91: open(path, 'w') has truncated the file and writelines raises
\* after k of the lines have reached the disk
WriteFail ==
    /\ pc = "write"
    /\ \E k \in PartialWrites(Len(final_lines)) :
           disk' = FileLines(SubSeq(final_lines, 1, k))
    /\ writes' = writes + 1
    /\ failure' = "write"
    /\ status' = 1
    /\ pc' = "exit"
    /\ UNCHANGED <<lines, new_lines, in_native_target, in_frameworks_phase, final_lines,
                   inserted_deps, stdout, run, orig, start, reads, new_from, final_from, ids>>

\* line 93, and the script ends
Report ==
    /\ pc = "report"
    /\ stdout' = Append(stdout, PatchedMsg)
    /\ status' = 0
    /\ pc' = "exit"
    /\ UNCHANGED <<disk, lines, new_lines, in_native_target, in_frameworks_phase, final_lines,
                   inserted_deps, run, orig, start, reads, writes, failure, new_from,
                   final_from, ids>>

\* the script is started again, as a new process, on the file a run that
\* ended with status 0 left behind
Rerun ==
    /\ pc = "exit"
    /\ status = 0
    /\ run < MaxRuns
    /\ run' = run + 1
    /\ start' = disk
    /\ lines' = <<>>
    /\ new_lines' = <<>>
    /\ in_native_target' = FALSE
    /\ in_frameworks_phase' = FALSE
    /\ final_lines' = <<>>
    /\ inserted_deps' = FALSE
    /\ pc' = "read"
    /\ stdout' = <<>>
    /\ status' = -1
    /\ ids' = {}
    /\ reads' = 0
    /\ writes' = 0
    /\ failure' = "none"
    /\ new_from' = <<>>
    /\ final_from' = <<>>
    /\ UNCHANGED <<disk, orig>>

Next ==
    \/ ReadFile
    \/ ReadFail
    \/ DefineIds
    \/ Guard
    \/ StructuralInserter
    \/ SectionAppender
    \/ WriteFile
    \/ WriteOpenFail
    \/ WriteFail
    \/ Report
    \/ Rerun

Spec == Init /\ [][Next]_vars

TypeOK ==
    /\ pc \in {"read", "define", "guard", "pass1", "pass2", "write", "report", "exit"}
    /\ ids \subseteq IdNames
    /\ in_frameworks_phase \in BOOLEAN
    /\ in_native_target \in BOOLEAN
    /\ inserted_deps \in BOOLEAN
    /\ status \in {-1, 0, 1}
    /\ run \in 1..MaxRuns
    /\ Len(new_from) = Len(new_lines)
    /\ Len(final_from) = Len(final_lines)

-----------------------------------------------------------------------------
(* Vocabulary of the properties *)

\* the run has ended after its write and its report
Applied == pc = "exit" /\ status = 0 /\ writes = 1

\* the known lines that contain the sentinel identifier
SentinelLines == {l \in KnownLines : Contains(mlx_dep_id, l)}

\* the sentinel identifier is somewhere in the document (it holds no line
\* end, so it is in the content exactly if it is in one of the lines)
HasSentinel(doc) ==
    \E k \in 1..Len(doc) :
        IF doc[k] \in KnownLines THEN doc[k] \in SentinelLines ELSE Contains(mlx_dep_id, doc[k])

\* the indices of the lines of doc that contain m
LinesWith(m, doc) == {k \in 1..Len(doc) : In(m, doc[k])}

\* how many lines of doc are the line l
Occ(l, doc) == Cardinality({k \in 1..Len(doc) : doc[k] = l})

The(S) == CHOOSE k \in S : TRUE

\* each of the four expected markers is there exactly once: the build-file
\* begin line, the frameworks phase opening line followed by its files line,
\* the native target opening line followed by its productType line, the
\* project begin line
WellFormed(doc) ==
    /\ Cardinality(LinesWith(BuildFileMarker, doc)) = 1
    /\ Cardinality(LinesWith(FrameworksMarker, doc)) = 1
    /\ Cardinality(LinesWith(FilesMarker, doc)) = 1
    /\ Cardinality(LinesWith(NativeTargetMarker, doc)) = 1
    /\ Cardinality(LinesWith(ProductTypeMarker, doc)) = 1
    /\ Cardinality(LinesWith(ProjectMarker, doc)) = 1
    /\ The(LinesWith(FrameworksMarker, doc)) < The(LinesWith(FilesMarker, doc))
    /\ The(LinesWith(NativeTargetMarker, doc)) < The(LinesWith(ProductTypeMarker, doc))

\* the document the four injections are expected to make of a well-formed doc
Expected(doc) ==
    LET bf == The(LinesWith(BuildFileMarker, doc))
        fl == The(LinesWith(FilesMarker, doc))
        pt == The(LinesWith(ProductTypeMarker, doc))
        pj == The(LinesWith(ProjectMarker, doc))
    IN  Flatten([k \in 1..Len(doc) |->
            (IF k = pj THEN DependencySectionLines ELSE <<>>)
            \o <<doc[k]>>
            \o (IF k = bf THEN BuildFileLines ELSE <<>>)
            \o (IF k = fl THEN PhaseFileLines ELSE <<>>)
            \o (IF k = pt THEN TargetDependencyLines ELSE <<>>)])

\* which injections the markers of a document call for
BuildFilePresent(doc) == LinesWith(BuildFileMarker, doc) # {}
FrameworksPresent(doc) ==
    \E a \in LinesWith(FrameworksMarker, doc) : \E b \in LinesWith(FilesMarker, doc) : a <= b
NativeTargetPresent(doc) ==
    \E a \in LinesWith(NativeTargetMarker, doc) : \E b \in LinesWith(ProductTypeMarker, doc) : a <= b
ProjectPresent(doc) == LinesWith(ProjectMarker, doc) # {}

\* how many more copies of the group g (told by its first line) out has than in
Added(g, in, out) == Occ(g[1], out) - Occ(g[1], in)

-----------------------------------------------------------------------------
(* Claims *)

\* C1: running the patcher twice in succession leaves the file identical to
\* the file after running it once: a later run that ends normally has not
\* changed the file it started from.
C1_Idempotent == (pc = "exit" /\ status = 0 /\ run >= 2) => disk = start

\* C2: whenever the content read contains the sentinel identifier, the run
\* writes nothing, injects nothing, prints "Project already patched.", exits
\* with status 0 and the file on disk is the file the run started from.
C2_GuardNoOp ==
    (pc = "exit" /\ failure # "read" /\ HasSentinel(start)) =>
        /\ disk = start
        /\ writes = 0
        /\ new_lines = <<>>
        /\ final_lines = <<>>
        /\ stdout = <<AlreadyPatchedMsg>>
        /\ status = 0

C2_Witness ==
    /\ pc = "exit"
    /\ run = 1
    /\ stdout = <<AlreadyPatchedMsg>>
    /\ HasSentinel(start)
    /\ disk = start

\* C3: on a sentinel-free manifest with each of the four markers exactly once,
\* the file written is the original lines plus exactly the 3 build-file lines
\* directly after the build-file begin line, the 3 reference lines directly
\* after the frameworks files line, the 5-line packageProductDependencies
\* block directly after the productType line and the new section with its 3
\* sub-records directly before the project begin line.
C3_Complete ==
    (Applied /\ WellFormed(start) /\ ~HasSentinel(start)) =>
        /\ final_lines = Expected(start)
        /\ disk = FileLines(Expected(start))
        /\ Len(final_lines) = Len(start) + 3 + 3 + 5 + 17
        /\ Len(BuildFileLines) = 3
        /\ Len(PhaseFileLines) = 3
        /\ Len(TargetDependencyLines) = 5
        /\ Count("isa = XCSwiftPackageProductDependency;", Join(DependencySectionLines)) = 3

C3_Witness == Applied /\ run = 1 /\ WellFormed(start) /\ ~HasSentinel(start)

\* C4 as stated: the patched output of a minimal manifest with all four
\* markers holds the sentinel identifier exactly 4 times.
C4_FourSentinels ==
    (Applied /\ run = 1 /\ WellFormed(start) /\ ~HasSentinel(start)) =>
        Count(mlx_dep_id, Join(disk)) = 4

\* C4 amended: the patched output of a manifest with all four markers and no
\* sentinel holds the sentinel identifier exactly 3 times (1 in a build-file
\* declaration, none in the frameworks phase references, 1 in the target
\* dependency list, 1 as a section sub-record), and a further run on that
\* output changes nothing and reports "Project already patched.".
C4_ThreeSentinels ==
    /\ (Applied /\ run = 1 /\ WellFormed(start) /\ ~HasSentinel(start)) =>
          /\ Count(mlx_dep_id, Join(disk)) = 3
          /\ Count(mlx_dep_id, Join(BuildFileLines)) = 1
          /\ Count(mlx_dep_id, Join(PhaseFileLines)) = 0
          /\ Count(mlx_dep_id, Join(TargetDependencyLines)) = 1
          /\ Count(mlx_dep_id, Join(DependencySectionLines)) = 1
    /\ (run >= 2 /\ WellFormed(orig) /\ ~HasSentinel(orig)) =>
          /\ disk = start
          /\ writes = 0
          /\ (pc = "exit" /\ failure = "none") => stdout = <<AlreadyPatchedMsg>>

C4_Witness ==
    /\ run = 2
    /\ pc = "exit"
    /\ status = 0
    /\ WellFormed(orig)
    /\ ~HasSentinel(orig)
    /\ Count(mlx_dep_id, Join(disk)) = 3

\* C5: on a sentinel-free manifest, whatever subset of the four markers is
\* absent, a run whose I/O does not fail reports success and has written the
\* file, and each injection is in the output exactly when its own marker is
\* in the input, whatever the other markers.
C5_Independent ==
    (pc = "exit" /\ failure = "none" /\ ~HasSentinel(start)) =>
        /\ status = 0
        /\ stdout = <<PatchedMsg>>
        /\ writes = 1
        /\ (Added(BuildFileLines, start, disk) > 0) <=> BuildFilePresent(start)
        /\ (Added(PhaseFileLines, start, disk) > 0) <=> FrameworksPresent(start)
        /\ (Added(TargetDependencyLines, start, disk) > 0) <=> NativeTargetPresent(start)
        /\ (Added(DependencySectionLines, start, disk) > 0) <=> ProjectPresent(start)
        /\ Len(final_lines) = Len(start)
                               + 3 * Added(BuildFileLines, start, disk)
                               + 3 * Added(PhaseFileLines, start, disk)
                               + 5 * Added(TargetDependencyLines, start, disk)
                               + 17 * Added(DependencySectionLines, start, disk)

\* three of the injections are called for and made, the fourth is neither
C5_Witness ==
    /\ Applied
    /\ run = 1
    /\ ~HasSentinel(start)
    /\ BuildFilePresent(start) /\ Added(BuildFileLines, start, disk) = 1
    /\ FrameworksPresent(start) /\ Added(PhaseFileLines, start, disk) = 1
    /\ ProjectPresent(start) /\ Added(DependencySectionLines, start, disk) = 1
    /\ ~NativeTargetPresent(start) /\ Added(TargetDependencyLines, start, disk) = 0

\* the identifiers the script synthesizes records for
SynthesizedIds ==
    {mlx_build_id, mlx_llm_build_id, mlx_common_build_id,
     mlx_dep_id, mlx_llm_dep_id, mlx_common_dep_id}

\* the line l declares the record whose key is id
Declares(id, l) ==
    /\ Len(l) >= Len(id) + 2
    /\ SubSeq(l, 1, Len(id) + 2) = "\t\t" \o id
    /\ Contains(" = {", l)

\* how many records of doc have the key id
Declared(id, doc) == Cardinality({k \in 1..Len(doc) : Declares(id, doc[k])})

\* C6: on every input the guard lets through, no synthesized identifier is
\* already in the original document, and once the patch is applied each
\* synthesized identifier is the key of at most one record of the output.
C6_UniqueIds ==
    /\ (pc \in {"pass1", "pass2", "write", "report"} \/ Applied) =>
           \A id \in SynthesizedIds : ~Contains(id, Join(start))
    /\ Applied =>
           \A id \in SynthesizedIds : Declared(id, disk) <= 1

\* opening minus closing delimiters of each known line
DeltaOf == [l \in KnownLines |->
               [d \in {"{", "("} |-> Count(d, l) - Count(IF d = "{" THEN "}" ELSE ")", l)]]

\* opening minus closing delimiters of a line
Delta(o, c, l) ==
    IF l \in KnownLines /\ <<o, c>> \in {<<"{", "}">>, <<"(", ")">>} THEN DeltaOf[l][o]
    ELSE Count(o, l) - Count(c, l)

RECURSIVE SumTo(_, _)
\* d[1] + ... + d[k]
SumTo(d, k) == IF k = 0 THEN 0 ELSE d[k] + SumTo(d, k - 1)

\* the opening minus closing delimiters of each line of doc
Deltas(o, c, doc) == [k \in 1..Len(doc) |-> Delta(o, c, doc[k])]

\* a group whose lines have the deltas d opens and closes within itself: the
\* depth never goes below where the group starts and it ends there
BalancedDeltas(d) ==
    /\ SumTo(d, Len(d)) = 0
    /\ \A k \in 1..Len(d) : SumTo(d, k) >= 0

\* the groups of lines the script synthesizes
Groups == {BuildFileLines, PhaseFileLines, TargetDependencyLines, DependencySectionLines}

GroupsBalanced ==
    \A g \in Groups :
        /\ BalancedDeltas(Deltas("{", "}", g))
        /\ BalancedDeltas(Deltas("(", ")", g))

\* with din and dout the deltas of the lines of the input and of the output,
\* the net count is the same and so is the depth at every original line
SameNesting(din, dout, from) ==
    /\ SumTo(dout, Len(dout)) = SumTo(din, Len(din))
    /\ \A p \in 1..Len(dout) :
          from[p] > 0 => SumTo(dout, p - 1) = SumTo(din, from[p] - 1)

\* the line p of out is part of a whole synthesized group
InGroup(out, from, p) ==
    \E g \in Groups : \E q \in 1..Len(g) :
        /\ p - q >= 0
        /\ p - q + Len(g) <= Len(out)
        /\ SubSeq(out, p - q + 1, p - q + Len(g)) = g
        /\ \A r \in (p - q + 1)..(p - q + Len(g)) : from[r] = 0

\* C7: the mutation preserves delimiter balance: the braces and parentheses
\* the written file has more than the original open and close within one
\* synthesized group, the net count of open minus close braces and
\* parentheses is that of the input, and so is the nesting depth at each
\* original line.
C7_Balance ==
    Applied =>
        /\ disk = FileLines(final_lines)
        /\ SameNesting(Deltas("{", "}", start), Deltas("{", "}", final_lines), final_from)
        /\ SameNesting(Deltas("(", ")", start), Deltas("(", ")", final_lines), final_from)
        /\ \A p \in 1..Len(final_lines) :
              final_from[p] > 0 => final_lines[p] = start[final_from[p]]
        /\ \A p \in 1..Len(final_lines) :
              final_from[p] = 0 => InGroup(final_lines, final_from, p)
        /\ GroupsBalanced

\* a dependency block, which opens a list, has been written inside a target
C7_Witness ==
    /\ Applied
    /\ run = 1
    /\ Added(TargetDependencyLines, start, disk) = 1
    /\ Added(DependencySectionLines, start, disk) = 1
    /\ Len(start) > 0

\* every original line has been copied to final_lines
Assembled == \A k \in 1..Len(lines) : \E p \in 1..Len(final_from) : final_from[p] = k

\* C8: in every run the file is read once and written at most once, the write
\* happens only after both loops have assembled the final line sequence, and
\* a run that has not reached the write (guard exit, failed read, or still
\* processing) has the file on disk as it started.
C8_SingleWrite ==
    /\ reads <= 1
    /\ writes <= 1
    /\ pc # "read" => reads = 1
    /\ writes = 0 => disk = start
    /\ writes = 1 =>
          /\ pc \in {"report", "exit"}
          /\ reads = 1
          /\ Len(new_from) = Len(new_lines)
          /\ Len(final_lines) >= Len(new_lines)
          /\ Assembled
          /\ failure = "none" => disk = FileLines(final_lines)

C8_Witness == Applied /\ run = 1 /\ disk # start /\ disk = FileLines(final_lines)

\* C9: every run ends in one of three outcomes: "already patched" (status 0,
\* file untouched), "patched successfully" (status 0, printed after the
\* write), or an uncaught error with non-zero status and nothing printed
\* when the open, read or write fails; a failed read writes nothing, a
\* failed write never prints "patched successfully", nothing is retried.
C9_Outcomes ==
    /\ pc = "exit" =>
          \/ /\ stdout = <<AlreadyPatchedMsg>>
             /\ status = 0
             /\ failure = "none"
             /\ writes = 0
             /\ disk = start
          \/ /\ stdout = <<PatchedMsg>>
             /\ status = 0
             /\ failure = "none"
             /\ writes = 1
             /\ disk = FileLines(final_lines)
          \/ /\ stdout = <<>>
             /\ status # 0
             /\ failure \in {"read", "open_w", "write"}
             /\ failure = "read" => (writes = 0 /\ disk = start)
             /\ failure = "open_w" => disk = start
    /\ pc # "exit" => (status = -1 /\ failure = "none")
    /\ (\E k \in 1..Len(stdout) : stdout[k] = PatchedMsg) => (writes = 1 /\ failure = "none")
    /\ reads <= 1
    /\ writes <= 1

C9_Witness == pc = "exit" /\ failure = "write" /\ status = 1 /\ stdout = <<>> /\ disk # start

\* C10: within one pass of the first loop each of the three injections
\* (build-file lines, frameworks phase references, target dependency block)
\* is made at most once, whatever recurs in the document.
C10_AtMostOnce ==
    pc \in {"pass1", "pass2", "write", "report", "exit"} =>
        /\ Added(BuildFileLines, lines, new_lines) <= 1
        /\ Added(PhaseFileLines, lines, new_lines) <= 1
        /\ Added(TargetDependencyLines, lines, new_lines) <= 1

\* the least element of a set of numbers
MinOf(S) == CHOOSE k \in S : \A j \in S : k <= j

\* the section put once, right before the first line of ls with the project
\* marker; ls itself when no line has the marker
WithSection(ls) ==
    IF LinesWith(ProjectMarker, ls) = {} THEN ls
    ELSE SubSeq(ls, 1, MinOf(LinesWith(ProjectMarker, ls)) - 1)
         \o DependencySectionLines
         \o SubSeq(ls, MinOf(LinesWith(ProjectMarker, ls)), Len(ls))

\* the section is a begin line, three 5-line sub-records and an end marker
\* line followed by a blank line
SectionShape ==
    /\ Len(DependencySectionLines) = 1 + 3 * 5 + 1
    /\ Count("isa = XCSwiftPackageProductDependency;", Join(DependencySectionLines)) = 3
    /\ LinesOf[DependencySectionLines[17]]
          = <<"/* End XCSwiftPackageProductDependency section */\n", "\n">>

\* C11: whatever the first loop has produced, the second loop inserts the
\* new section exactly once, immediately before the first line containing
\* the project begin marker, and not again before a later such line; when no
\* line contains the marker the sequence passes through unchanged.
C11_SectionOnce ==
    pc = "write" =>
        /\ final_lines = WithSection(new_lines)
        /\ Added(DependencySectionLines, new_lines, final_lines)
              = (IF LinesWith(ProjectMarker, new_lines) = {} THEN 0 ELSE 1)
        /\ inserted_deps <=> (LinesWith(ProjectMarker, new_lines) # {})
        /\ SectionShape

\* the marker recurs and the section is there once
C11_Witness ==
    /\ pc = "write"
    /\ Cardinality(LinesWith(ProjectMarker, new_lines)) >= 2
    /\ Added(DependencySectionLines, new_lines, final_lines) = 1

\* the line that closes a block opened at the two-tab level
BlockClose == "\t\t};\n"

\* the last line of the block opened at line a of doc: the first closing
\* line after a, or the end of doc when the block is never closed
BlockEnd(doc, a) ==
    IF \E k \in (a + 1)..Len(doc) : doc[k] = BlockClose
    THEN MinOf({ k \in (a + 1)..Len(doc) : doc[k] = BlockClose })
    ELSE Len(doc)

\* the original line t is followed in new_lines, before the next original
\* line, by the lines of group g
Received(g, t) ==
    \E p \in 1..Len(new_lines) :
        /\ new_from[p] = t
        /\ \E q \in (p + 1)..Len(new_lines) :
              /\ new_lines[q] = g[1]
              /\ \A r \in (p + 1)..q : new_from[r] = 0

\* line t lies within a block of doc opened by a line containing marker m
WithinBlock(m, doc, t) ==
    \E a \in 1..t : In(m, doc[a]) /\ t <= BlockEnd(doc, a)

\* C12: the three phase references are appended only after a 'files = ('
\* line that lies within a frameworks phase block, and the dependency
\* sub-block only after a 'productType = ' line within a native target
\* block; a block without the trigger line leaves a matching line of a later
\* block without the injection.
C12_BlockScoped ==
    pc = "pass2" =>
        \A t \in 1..Len(lines) :
            /\ Received(PhaseFileLines, t) =>
                  In(FilesMarker, lines[t]) /\ WithinBlock(FrameworksMarker, lines, t)
            /\ Received(TargetDependencyLines, t) =>
                  In(ProductTypeMarker, lines[t]) /\ WithinBlock(NativeTargetMarker, lines, t)

\* the positions at which m occurs in the line l
Positions(m, l) == { i \in 1..(Len(l) - Len(m) + 1) : SubSeq(l, i, i + Len(m) - 1) = m }

\* the identifier that follows the first occurrence of m in the line l
Following(m, l) ==
    SubSeq(l, MinOf(Positions(m, l)) + Len(m),
              MinOf(Positions(m, l)) + Len(m) + Len(mlx_dep_id) - 1)

\* the identifier that starts a record line (two tabs deep)
Key(l) == SubSeq(l, 3, 2 + Len(mlx_dep_id))

\* the identifier that starts a list entry line (four tabs deep)
Entry(l) == SubSeq(l, 5, 4 + Len(mlx_dep_id))

\* the synthesized lines of out that follow line h up to the next original line
GroupAfter(out, from, h) ==
    { k \in (h + 1)..Len(out) : \A r \in (h + 1)..k : from[r] = 0 }

\* the synthesized lines of out that precede line h back to the previous
\* original line
GroupBefore(out, from, h) ==
    { k \in 1..(h - 1) : \A r \in k..(h - 1) : from[r] = 0 }

\* the synthesized build-file records: in the build-file section, right after
\* its begin line
BuildRecords(out, from) ==
    { k \in GroupAfter(out, from, The(LinesWith(BuildFileMarker, out))) :
        Contains("isa = PBXBuildFile;", out[k]) }

\* the synthesized phase-link entries: right after the files line
PhaseEntries(out, from) ==
    { k \in GroupAfter(out, from, The(LinesWith(FilesMarker, out))) :
        Contains(" in Frameworks */,", out[k]) }

\* the entries of the synthesized packageProductDependencies list
TargetEntries(out, from) ==
    { k \in GroupAfter(out, from, The(LinesWith(ProductTypeMarker, out))) :
        Contains(" */,", out[k]) }

\* the opening lines of the product-dependency records of the new section
DepRecords(out, from) ==
    { k \in GroupBefore(out, from, The(LinesWith(ProjectMarker, out))) :
        /\ Contains(" = {", out[k])
        /\ Contains("isa = XCSwiftPackageProductDependency;", out[k + 1]) }

\* the package lines of the record opened at line d
PackageLines(out, d) ==
    { k \in (d + 1)..BlockEnd(out, d) : Contains("package = ", out[k]) }

\* every identifier a synthesized line of out refers to is the key of
\* exactly one synthesized record of out
CrossReferenced(out, from) ==
    /\ Cardinality(PhaseEntries(out, from)) = 3
    /\ Cardinality(BuildRecords(out, from)) = 3
    /\ Cardinality(TargetEntries(out, from)) = 3
    /\ Cardinality(DepRecords(out, from)) = 3
    /\ \A e \in PhaseEntries(out, from) :
          Cardinality({ b \in BuildRecords(out, from) : Key(out[b]) = Entry(out[e]) }) = 1
    /\ \A b \in BuildRecords(out, from) :
          Cardinality({ d \in DepRecords(out, from) :
                          Key(out[d]) = Following("productRef = ", out[b]) }) = 1
    /\ \A e \in TargetEntries(out, from) :
          Cardinality({ d \in DepRecords(out, from) : Key(out[d]) = Entry(out[e]) }) = 1
    /\ \A d \in DepRecords(out, from) :
          /\ Cardinality(PackageLines(out, d)) = 1
          /\ \A k \in PackageLines(out, d) :
                Following("package = ", out[k]) \in {mlx_pkg_id, mlx_lm_pkg_id}

\* C13: after a patch of a sentinel-free document that has all the expected
\* markers, each of the three phase-link entries names one inserted
\* build-file record, each build-file record's productRef names exactly one
\* product-dependency record of the new section, each entry of the target's
\* packageProductDependencies list names one of those three records, and
\* each product-dependency record names exactly one package identifier.
C13_CrossReferences ==
    (Applied /\ WellFormed(start) /\ ~HasSentinel(start)) =>
        /\ disk = FileLines(final_lines)
        /\ CrossReferenced(final_lines, final_from)

\* a patched document with all four injections in it
C13_Witness ==
    /\ Applied /\ WellFormed(start) /\ ~HasSentinel(start)
    /\ PhaseEntries(final_lines, final_from) # {}
    /\ TargetEntries(final_lines, final_from) # {}
    /\ DepRecords(final_lines, final_from) # {}

\* line t of doc is the first files line at or after a frameworks phase
\* opening line
PhaseFires(doc, t) ==
    /\ In(FilesMarker, doc[t])
    /\ \E a \in 1..t : /\ In(FrameworksMarker, doc[a])
                       /\ \A j \in a..(t - 1) : ~In(FilesMarker, doc[j])

\* line t of doc is the first productType line at or after a native target
\* opening line
TargetFires(doc, t) ==
    /\ In(ProductTypeMarker, doc[t])
    /\ \E a \in 1..t : /\ In(NativeTargetMarker, doc[a])
                       /\ \A j \in a..(t - 1) : ~In(ProductTypeMarker, doc[j])

\* the document with each group right after its trigger line and the section
\* right before its anchor line
Patched(doc) ==
    WithSection(Flatten([t \in 1..Len(doc) |->
        <<doc[t]>>
        \o (IF In(BuildFileMarker, doc[t]) THEN BuildFileLines ELSE <<>>)
        \o (IF PhaseFires(doc, t) THEN PhaseFileLines ELSE <<>>)
        \o (IF TargetFires(doc, t) THEN TargetDependencyLines ELSE <<>>)]))

\* the positions of out that hold original lines
Kept(from) == { p \in 1..Len(from) : from[p] > 0 }

\* deleting the synthesized lines of out yields doc: the kept lines are the
\* lines of doc, each once, unmodified and in order
DeletingYields(out, from, doc) ==
    /\ Cardinality(Kept(from)) = Len(doc)
    /\ \A p \in Kept(from) :
          /\ from[p] = Cardinality({ q \in Kept(from) : q <= p })
          /\ out[p] = doc[from[p]]

\* C14: whenever the patch is applied the written sequence holds every
\* original line unmodified and in the original order, its length is the
\* original length plus the number of synthesized lines, deleting the
\* synthesized lines yields the original document, each group of the first
\* loop sits right after its trigger line and the section right before its
\* anchor line.
C14_Preserved ==
    Applied =>
        /\ disk = FileLines(final_lines)
        /\ DeletingYields(final_lines, final_from, start)
        /\ Len(final_lines) = Len(start)
               + Cardinality({ p \in 1..Len(final_from) : final_from[p] = 0 })
        /\ Len(final_lines) = Len(start)
               + Added(BuildFileLines, start, final_lines) * Len(BuildFileLines)
               + Added(PhaseFileLines, start, final_lines) * Len(PhaseFileLines)
               + Added(TargetDependencyLines, start, final_lines) * Len(TargetDependencyLines)
               + Added(DependencySectionLines, start, final_lines) * Len(DependencySectionLines)
        /\ final_lines = Patched(start)

\* an applied patch that put in a group of the first loop and the section
C14_Witness ==
    /\ Applied
    /\ Added(PhaseFileLines, start, final_lines) > 0
    /\ Added(DependencySectionLines, start, final_lines) > 0
    /\ Len(final_lines) > Len(start)

\* one of the three injections that carry the sentinel fired between in and out
SentinelInjected(in, out) ==
    \/ Added(BuildFileLines, in, out) > 0
    \/ Added(TargetDependencyLines, in, out) > 0
    \/ Added(DependencySectionLines, in, out) > 0

\* C15: after a patch of a sentinel-free input the written file holds the
\* sentinel exactly if the build-file injection, the target dependency
\* injection or the section injection fired; the phase references on their
\* own never write it; and the guard of a run trips exactly if the file it
\* reads holds the sentinel, so the run after a patch is a no-op exactly in
\* the former case.
C15_SentinelCoverage ==
    /\ (Applied /\ ~HasSentinel(start)) =>
          /\ disk = FileLines(final_lines)
          /\ HasSentinel(disk) <=> SentinelInjected(start, final_lines)
          /\ ~HasSentinel(PhaseFileLines)
    /\ (pc = "exit" /\ failure = "none") =>
          /\ (stdout = <<AlreadyPatchedMsg>>) <=> HasSentinel(start)
          /\ (run > 1 /\ SentinelInjected(orig, start)) => stdout = <<AlreadyPatchedMsg>>

\* a second run that patched again because the first one had put in the
\* phase references only
C15_Witness ==
    /\ Applied
    /\ run = 2
    /\ ~HasSentinel(start)
    /\ Added(PhaseFileLines, orig, start) = 1
    /\ ~SentinelInjected(orig, start)

\* C16 as stated: in every execution all the record identifiers are defined
\* before any line of the document is read, and the guard is evaluated
\* before any injection pass starts.
C16_DefinedBeforeRead ==
    /\ (reads > 0 /\ lines # <<>>) => ids = IdNames
    /\ pc \in {"pass1", "pass2", "write", "report"} => ~HasSentinel(lines)

\* C16: in every execution the document is read before the record
\* identifiers are defined; all of them are defined before the guard is
\* evaluated, the guard is evaluated before any injection pass starts, and
\* nothing is injected before it.
C16_Lifecycle ==
    /\ ids \in {{}, IdNames}
    /\ ids # {} => (reads = 1 /\ failure # "read")
    /\ pc \in {"guard", "pass1", "pass2", "write", "report"} => ids = IdNames
    /\ pc \in {"read", "define"} => ids = {}
    /\ pc \in {"pass1", "pass2", "write", "report"} => ~HasSentinel(lines)
    /\ pc \in {"read", "define", "guard"} => (new_lines = <<>> /\ final_lines = <<>>)

\* the first loop is about to start on lines that were read, with the
\* identifiers defined and the guard passed
C16_Witness ==
    /\ pc = "pass1"
    /\ reads = 1
    /\ lines # <<>>
    /\ ids = IdNames

====
